---- MODULE Spec2Model ----
(***************************************************************************)
(* A model of scrape.py, the ETL engine of the Toronto Asset Safety Radar: *)
(* http_get_json (retrying GET), discover_fields, build_where_clauses,     *)
(* fetch_features (strategy fallback and offset paging), process_features  *)
(* (per-feature validation and renaming) and main (per-category pipeline). *)
(***************************************************************************)
EXTENDS Integers, Sequences, FiniteSets, TLC

\* ------------------------------------------------------------------------
\* Program constants
\* ------------------------------------------------------------------------
MAX_RETRIES == 3
PAGE_SIZE == 2000
SAFETY_LIMIT == 100000
TIME_WINDOW_MONTHS == 6

\* ------------------------------------------------------------------------
\* Bounds of the model (the environment's choices, not the program's)
\* ------------------------------------------------------------------------
\* Size of a short page (fewer than PAGE_SIZE features).
SmallPage == 10
\* How many short pages flagged exceededTransferLimit the service sends
\* within one strategy.
MaxShortPages == 3

VARIABLES
  \* fetch_features
  pc,               \* position in fetch_features
  available_fields, \* set of the discovered (or guessed) field names
  where_strategies, \* sequence of WHERE clauses built by build_where_clauses
  strategy,         \* index in where_strategies of the strategy being tried
  all_features,     \* len(all_features)
  offset,           \* resultOffset of the next page request
  result,           \* length of the list fetch_features returned (-1: none yet)
  \* http_get_json
  hpc,              \* position in http_get_json
  attempt,          \* the loop variable of the retry loop
  data,             \* the parsed body http_get_json returns
  exc,              \* the exception http_get_json raised
  \* history
  log,              \* what the current http_get_json call did so far
  last_resp,        \* what the last HTTP attempt produced
  page_calls,       \* page requests made under the current strategy
  outcomes,         \* how each finished strategy ended
  short_pages,      \* short pages flagged "more data" under this strategy
  read_error,       \* a caller read a body that carries an `error` member
  \* process_features
  raw_features,     \* the list process_features is given
  theft_type,       \* the category tag
  today,            \* the date now_utc() gives during the run
  tpc,              \* position in process_features
  idx,              \* features of raw_features the loop has consumed
  clean_records,    \* the records emitted so far
  discarded_coords, \* the bad-coordinate counter
  discarded_date,   \* the out-of-window counter
  verdicts,         \* what the loop did with each consumed feature
  \* main
  mpc,              \* position in main
  cat,              \* index in Categories of the category being processed
  files,            \* the output file of each category
  total_records,    \* the running total of records saved
  exit_status,      \* the status the process ends with (-1: still running)
  fetched,          \* what fetch_features did for each category
  \* the sort at the end of fetch_features
  spc,              \* position in the tail of fetch_features
  accumulated,      \* all_features as the strategy loop left it
  keyed,            \* the items whose sort key is computed
  returned          \* the list fetch_features returns

fetchVars == <<pc, available_fields, where_strategies, strategy, all_features,
               offset, result>>
httpVars == <<hpc, attempt, data, exc>>
histVars == <<log, last_resp, page_calls, outcomes, short_pages, read_error>>
transformVars == <<raw_features, theft_type, today, tpc, idx, clean_records,
                   discarded_coords, discarded_date, verdicts>>
mainVars == <<mpc, cat, files, total_records, exit_status, fetched>>
sortVars == <<spc, accumulated, keyed, returned>>
vars == <<fetchVars, httpVars, histVars, transformVars, mainVars, sortVars>>

\* ------------------------------------------------------------------------
\* The remote service: what one HTTP attempt can produce
\* ------------------------------------------------------------------------
DateFields == {"OCC_YEAR", "OCC_DATE", "REPORT_DATE"}

\* The attribute sets a layer can expose: none, or OBJECTID with any of the
\* date-like fields.
FieldSets == {{}} \cup {{"OBJECTID"} \cup s : s \in SUBSET DateFields}

Body(error, count, flag, keys, meta) ==
  [kind |-> "json", error |-> error, count |-> count, flag |-> flag,
   keys |-> keys, meta |-> meta]

NoBody == [kind |-> "none", error |-> FALSE, count |-> 0, flag |-> FALSE,
           keys |-> {}, meta |-> {}]
NetError == [NoBody EXCEPT !.kind = "neterr"]
Malformed == [NoBody EXCEPT !.kind = "malformed"]
\* A 200 response that embeds an error object (and may carry features too).
ErrorBody == Body(TRUE, SmallPage, FALSE, {"OBJECTID"}, {})

DiscoverResponses ==
  {Body(FALSE, 1, FALSE, k, {}) : k \in FieldSets}
    \cup {Body(FALSE, 0, FALSE, {}, m) : m \in FieldSets}
    \cup {ErrorBody, NetError, Malformed}

PageResponses ==
  {Body(FALSE, c, f, {}, {}) :
     c \in {0, SmallPage, PAGE_SIZE}, f \in BOOLEAN}
    \cup {ErrorBody, NetError, Malformed}

\* A short page flagged "more data" is sent at most MaxShortPages times within
\* one strategy.
Responses ==
  IF pc = "discover" THEN DiscoverResponses
  ELSE {r \in PageResponses :
          (r.kind = "json" /\ ~r.error /\ r.count = SmallPage /\ r.flag)
             => short_pages < MaxShortPages}

\* ------------------------------------------------------------------------
\* http_get_json
\* ------------------------------------------------------------------------
\* Mutant: the embedded error object is not looked for.
HasError_NeverChecked(r) == FALSE

\* `if "error" in data`
HasError(r) == r.error

\* Mutant: the last attempt is followed by a sleep too.
MayRetry_OffByOne(a) == a <= MAX_RETRIES

\* `if attempt < MAX_RETRIES` : sleep and retry, else re-raise
MayRetry(a) == a < MAX_RETRIES

\* The exceptions the retry loop catches: URLError, HTTPError, OSError (a
\* timeout included) and the RuntimeError raised for an embedded error.
Retryable(r) == r.kind = "neterr" \/ (r.kind = "json" /\ HasError(r))

http_call ==
  /\ hpc' = "try"
  /\ attempt' = 1
  /\ data' = NoBody
  /\ exc' = "none"
  /\ log' = <<>>
  /\ last_resp' = NoBody

\* One pass of the retry loop: urlopen, read, json.loads, the error check.
http_attempt ==
  /\ hpc = "try"
  /\ \E r \in Responses :
       /\ last_resp' = r
       /\ IF Retryable(r)
            THEN /\ log' = Append(log, "fail")
                 /\ data' = data
                 /\ IF MayRetry(attempt)
                      THEN hpc' = "sleep" /\ exc' = exc
                      ELSE hpc' = "raised" /\ exc' = "retryable"
            ELSE IF r.kind = "json"
            THEN /\ log' = Append(log, "ok")
                 /\ data' = r
                 /\ hpc' = "returned"
                 /\ exc' = exc
            ELSE \* json.loads raises ValueError, which the loop does not catch
                 /\ log' = Append(log, "bad")
                 /\ data' = data
                 /\ hpc' = "raised"
                 /\ exc' = "ValueError"
  /\ UNCHANGED <<fetchVars, attempt, page_calls, outcomes, short_pages,
                 read_error>>
  /\ UNCHANGED <<transformVars, mainVars, sortVars>>

\* time.sleep(RETRY_DELAY_SECONDS), then the next pass of the loop; a loop
\* that runs out of passes falls off the end of the function (returns None).
http_sleep ==
  /\ hpc = "sleep"
  /\ log' = Append(log, "sleep")
  /\ IF attempt + 1 <= MAX_RETRIES
       THEN hpc' = "try" /\ attempt' = attempt + 1
       ELSE hpc' = "returned_none" /\ attempt' = attempt
  /\ UNCHANGED <<fetchVars, data, exc, last_resp, page_calls, outcomes,
                 short_pages, read_error>>
  /\ UNCHANGED <<transformVars, mainVars, sortVars>>

\* ------------------------------------------------------------------------
\* discover_fields, build_where_clauses
\* ------------------------------------------------------------------------
\* The names discover_fields extracts from a body: the first feature's
\* attribute keys, else the names of the fields metadata, else nothing.
DiscoveredFields(d) ==
  IF d.count > 0 THEN d.keys
  ELSE IF d.meta # {} THEN d.meta
  ELSE {}

\* Mutant: the guess leaves REPORT_DATE out.
GuessFields_Short == {"OCC_YEAR", "OCC_DATE"}

\* `available_fields = ["OCC_YEAR", "OCC_DATE", "REPORT_DATE"]  # guess`
GuessFields == {"OCC_YEAR", "OCC_DATE", "REPORT_DATE"}

WhereYear == "OCC_YEAR >= cutoff_year"
WhereOccDate == "OCC_DATE >= cutoff_ms"
WhereReportDate == "REPORT_DATE >= cutoff_ms"
WhereAll == "1=1"

\* Mutant: the REPORT_DATE strategy is added without looking at the fields.
build_where_clauses_Unchecked(fields) ==
  (IF "OCC_YEAR" \in fields THEN <<WhereYear>> ELSE <<>>)
    \o (IF "OCC_DATE" \in fields THEN <<WhereOccDate>> ELSE <<>>)
    \o <<WhereReportDate>>
    \o <<WhereAll>>

\* build_where_clauses: the clauses in the order they are appended.
build_where_clauses(fields) ==
  (IF "OCC_YEAR" \in fields THEN <<WhereYear>> ELSE <<>>)
    \o (IF "OCC_DATE" \in fields THEN <<WhereOccDate>> ELSE <<>>)
    \o (IF "REPORT_DATE" \in fields THEN <<WhereReportDate>> ELSE <<>>)
    \o <<WhereAll>>

\* ------------------------------------------------------------------------
\* fetch_features
\* ------------------------------------------------------------------------
\* Mutant: an empty page does not end paging.
StopPaging_EmptyGoesOn(count, total, flag) ==
  \/ total >= SAFETY_LIMIT
  \/ (~flag /\ count < PAGE_SIZE)

\* Mutant: a full page without the flag ends paging as well.
StopPaging_FullPageStops(count, total, flag) ==
  \/ count = 0
  \/ total >= SAFETY_LIMIT
  \/ (~flag /\ count <= PAGE_SIZE)

\* The three `break`s of the paging loop, after a page of `count` features
\* that brought the accumulated length to `total`.
StopPaging(count, total, flag) ==
  \/ count = 0
  \/ total >= SAFETY_LIMIT
  \/ (~flag /\ count < PAGE_SIZE)

\* Mutant: a strategy that accumulated nothing is accepted too.
Accepted_EvenEmpty(total) == total >= 0

\* `if len(all_features) > 0` : the strategy worked
Accepted(total) == total > 0

\* The head of the `for where_clause, description in where_strategies` loop.
ForStrategy(i) ==
  IF i <= Len(where_strategies) THEN "strategy" ELSE "after_loop"

\* fetch_features is entered: discover_fields issues its one query.
fetch_begin ==
  /\ pc = "start"
  /\ pc' = "discover"
  /\ http_call
  /\ UNCHANGED <<available_fields, where_strategies, strategy, all_features,
                 offset, result, page_calls, outcomes, short_pages, read_error>>
  /\ UNCHANGED <<transformVars, mainVars, sortVars>>

\* discover_fields returns (the field names, or [] on any exception); the
\* guess replaces an empty list; the strategies are built.
discover_return ==
  /\ pc = "discover"
  /\ hpc \in {"returned", "raised", "returned_none"}
  /\ LET found == IF hpc = "returned" THEN DiscoveredFields(data) ELSE {}
         fields == IF found # {} THEN found ELSE GuessFields
     IN  /\ available_fields' = fields
         /\ where_strategies' = build_where_clauses(fields)
  /\ read_error' = (read_error \/ (hpc = "returned" /\ data.error))
  /\ all_features' = 0
  /\ strategy' = 1
  /\ pc' = "strategy"
  /\ hpc' = "idle"
  /\ UNCHANGED <<offset, result, attempt, data, exc, log, last_resp,
                 page_calls, outcomes, short_pages>>
  /\ UNCHANGED <<transformVars, mainVars, sortVars>>

\* One strategy starts: the accumulator and the offset are reset and the
\* first page is requested.
strategy_begin ==
  /\ pc = "strategy"
  /\ all_features' = 0
  /\ offset' = 0
  /\ page_calls' = 1
  /\ short_pages' = 0
  /\ pc' = "page"
  /\ http_call
  /\ UNCHANGED <<available_fields, where_strategies, strategy, result,
                 outcomes, read_error>>
  /\ UNCHANGED <<transformVars, mainVars, sortVars>>

\* A page came back: accumulate it, then stop paging or request the next.
page_return ==
  /\ pc = "page"
  /\ hpc = "returned"
  /\ LET count == data.count
         total == all_features + count
     IN  /\ all_features' = total
         /\ offset' = IF count = 0 THEN offset ELSE offset + PAGE_SIZE
         /\ short_pages' = IF count = SmallPage /\ data.flag
                             THEN short_pages + 1 ELSE short_pages
         /\ read_error' = (read_error \/ data.error)
         /\ IF StopPaging(count, total, data.flag)
              THEN /\ hpc' = "idle"
                   /\ UNCHANGED <<attempt, data, exc, log, last_resp,
                                  page_calls>>
                   /\ IF Accepted(total)
                        THEN /\ outcomes' = Append(outcomes, "accepted")
                             /\ pc' = "after_loop"
                             /\ strategy' = strategy
                        ELSE /\ outcomes' = Append(outcomes, "zero")
                             /\ pc' = ForStrategy(strategy + 1)
                             /\ strategy' = strategy + 1
              ELSE /\ http_call
                   /\ page_calls' = page_calls + 1
                   /\ UNCHANGED <<pc, strategy, outcomes>>
  /\ UNCHANGED <<available_fields, where_strategies, result>>
  /\ UNCHANGED <<transformVars, mainVars, sortVars>>

\* http_get_json raised (or the body was unusable): `except Exception` logs
\* the failure and continues with the next strategy.
page_raise ==
  /\ pc = "page"
  /\ hpc \in {"raised", "returned_none"}
  /\ outcomes' = Append(outcomes, "raised")
  /\ pc' = ForStrategy(strategy + 1)
  /\ strategy' = strategy + 1
  /\ hpc' = "idle"
  /\ UNCHANGED <<available_fields, where_strategies, all_features, offset,
                 result, attempt, data, exc, log, last_resp, page_calls,
                 short_pages, read_error>>
  /\ UNCHANGED <<transformVars, mainVars, sortVars>>

\* After the loop: [] when nothing is accumulated, else the sorted list.
fetch_return ==
  /\ pc = "after_loop"
  /\ result' = all_features
  /\ pc' = "done"
  /\ UNCHANGED <<available_fields, where_strategies, strategy, all_features,
                 offset, httpVars, histVars>>
  /\ UNCHANGED <<transformVars, mainVars, sortVars>>

\* fetch_features has not been entered.
FetchStart ==
  /\ pc = "start"
  /\ available_fields = {}
  /\ where_strategies = <<>>
  /\ strategy = 0
  /\ all_features = 0
  /\ offset = 0
  /\ result = -1
  /\ hpc = "idle"
  /\ attempt = 0
  /\ data = NoBody
  /\ exc = "none"
  /\ log = <<>>
  /\ last_resp = NoBody
  /\ page_calls = 0
  /\ outcomes = <<>>
  /\ short_pages = 0
  /\ read_error = FALSE


\* ------------------------------------------------------------------------
\* Python values, as far as process_features looks at them
\* ------------------------------------------------------------------------
\* One unit of a float is 1e-7: a float is kept as an integer number of
\* units, so that round(x, 6) has something to round.
Unit == 10000000

NoneV == [t |-> "none", n |-> 0, s |-> ""]
IntV(n) == [t |-> "int", n |-> n, s |-> ""]
FloatV(u) == [t |-> "float", n |-> u, s |-> ""]
StrV(s) == [t |-> "str", n |-> 0, s |-> s]
\* An int of epoch milliseconds, kept in seconds: its value is n * 1000.
EpochV(n) == [t |-> "ms", n |-> n, s |-> ""]
\* The non-empty list [1]: a value of a type no conversion accepts.
ListV == [t |-> "list", n |-> 1, s |-> ""]

\* bool(x)
Truthy(x) ==
  CASE x.t = "none" -> FALSE
    [] x.t \in {"int", "float", "ms"} -> x.n # 0
    [] x.t = "str" -> x.s # ""
    [] OTHER -> TRUE

\* The result of a conversion: a number, or an exception (ValueError or
\* TypeError, which every handler here catches together).
Ok(n) == [ok |-> TRUE, n |-> n]
Raises == [ok |-> FALSE, n |-> 0]

DigitChars == "0123456789"
Char(s, i) == SubSeq(s, i, i)
IsDigit(c) == \E i \in 1..10 : Char(DigitChars, i) = c
DigitOf(c) == (CHOOSE i \in 1..10 : Char(DigitChars, i) = c) - 1
AllDigits(s) == Len(s) > 0 /\ \A i \in 1..Len(s) : IsDigit(Char(s, i))

RECURSIVE NatOf(_)
NatOf(s) ==
  IF Len(s) = 0 THEN 0
  ELSE NatOf(SubSeq(s, 1, Len(s) - 1)) * 10 + DigitOf(Char(s, Len(s)))

RECURSIVE IntText(_)
IntText(n) ==
  IF n < 0 THEN "-" \o IntText(-n)
  ELSE IF n < 10 THEN Char(DigitChars, n + 1)
  ELSE IntText(n \div 10) \o Char(DigitChars, (n % 10) + 1)

\* Truncation toward zero of a float given in units.
Trunc(u) == IF u >= 0 THEN u \div Unit ELSE -((-u) \div Unit)

Signed(s) == Len(s) > 0 /\ Char(s, 1) \in {"-", "+"}
Unsigned(s) == IF Signed(s) THEN SubSeq(s, 2, Len(s)) ELSE s
SignOf(s) == IF Signed(s) /\ Char(s, 1) = "-" THEN -1 ELSE 1

\* int(x)
PyInt(x) ==
  CASE x.t = "int" -> Ok(x.n)
    [] x.t = "ms" -> Ok(x.n * 1000)
    [] x.t = "float" -> Ok(Trunc(x.n))
    [] x.t = "str" ->
         IF AllDigits(Unsigned(x.s))
           THEN Ok(SignOf(x.s) * NatOf(Unsigned(x.s))) ELSE Raises
    [] OTHER -> Raises

RECURSIVE Pow10(_)
Pow10(k) == IF k = 0 THEN 1 ELSE 10 * Pow10(k - 1)

\* The place of the decimal point of s, 0 when it has none.
DotAt(s) ==
  IF \E i \in 1..Len(s) : Char(s, i) = "."
    THEN CHOOSE i \in 1..Len(s) :
           Char(s, i) = "." /\ \A j \in 1..(i - 1) : Char(s, j) # "."
    ELSE 0

\* float(s) of a decimal literal with at most 7 fraction digits, in units.
FloatOfText(s) ==
  LET body == Unsigned(s)
      dot == DotAt(body)
      whole == IF dot = 0 THEN body ELSE SubSeq(body, 1, dot - 1)
      frac == IF dot = 0 THEN "" ELSE SubSeq(body, dot + 1, Len(body))
      digits == whole \o frac
  IN  IF AllDigits(digits) /\ Len(frac) <= 7
        THEN Ok(SignOf(s) * (NatOf(whole) * Unit
                             + NatOf(frac) * Pow10(7 - Len(frac))))
        ELSE Raises

\* float(x)
PyFloat(x) ==
  CASE x.t = "int" -> Ok(x.n * Unit)
    [] x.t = "float" -> Ok(x.n)
    [] x.t = "str" -> FloatOfText(x.s)
    [] OTHER -> Raises

\* str(x)
PyStr(x) ==
  CASE x.t = "str" -> x.s
    [] x.t = "int" -> IntText(x.n)
    [] x.t = "ms" -> IntText(x.n) \o "000"
    [] x.t = "float" -> IntText(Trunc(x.n)) \o ".0"
    [] x.t = "none" -> "None"
    [] OTHER -> "[1]"

\* s.strip()
RECURSIVE Strip(_)
Strip(s) ==
  IF Len(s) = 0 THEN s
  ELSE IF Char(s, 1) = " " THEN Strip(SubSeq(s, 2, Len(s)))
  ELSE IF Char(s, Len(s)) = " " THEN Strip(SubSeq(s, 1, Len(s) - 1))
  ELSE s

\* format(n, "0<width>d")
RECURSIVE ZeroPad(_, _)
ZeroPad(text, width) ==
  IF Len(text) >= width THEN text ELSE ZeroPad("0" \o text, width)

FormatInt(n, width) ==
  IF n < 0 THEN "-" \o ZeroPad(IntText(-n), width - 1)
  ELSE ZeroPad(IntText(n), width)

\* round(x, 6) of a float in units: to the nearest multiple of 10 units
\* (a decimal tie goes to the even digit).
Round6(u) ==
  LET q == u \div 10
      r == u % 10
  IN  10 * (IF r < 5 THEN q
            ELSE IF r > 5 THEN q + 1
            ELSE IF q % 2 = 0 THEN q ELSE q + 1)

\* ------------------------------------------------------------------------
\* The calendar (datetime arithmetic on dates)
\* ------------------------------------------------------------------------
\* Days since 1970-01-01 of a proleptic Gregorian date.
DaysFromCivil(y, m, d) ==
  LET yy == IF m <= 2 THEN y - 1 ELSE y
      era == yy \div 400
      yoe == yy - era * 400
      mp == IF m > 2 THEN m - 3 ELSE m + 9
      doy == (153 * mp + 2) \div 5 + d - 1
      doe == yoe * 365 + yoe \div 4 - yoe \div 100 + doy
  IN  era * 146097 + doe - 719468

\* The date of a day number.
CivilFromDays(z) ==
  LET zz == z + 719468
      era == zz \div 146097
      doe == zz - era * 146097
      yoe == (doe - doe \div 1460 + doe \div 36524 - doe \div 146096) \div 365
      doy == doe - (365 * yoe + yoe \div 4 - yoe \div 100)
      mp == (5 * doy + 2) \div 153
      d == doy - (153 * mp + 2) \div 5 + 1
      m == IF mp < 10 THEN mp + 3 ELSE mp - 9
      y == yoe + era * 400
  IN  [year |-> IF m <= 2 THEN y + 1 ELSE y, month |-> m, day |-> d]

\* `now_utc() - timedelta(days=TIME_WINDOW_MONTHS * 30)`
CutoffDate(now) ==
  CivilFromDays(DaysFromCivil(now.year, now.month, now.day)
                  - TIME_WINDOW_MONTHS * 30)

\* ------------------------------------------------------------------------
\* FIELD_MAP, _first_of, parse_month, parse_date_string
\* ------------------------------------------------------------------------
FIELD_MAP ==
  [id_fields |-> <<"EVENT_UNIQUE_ID", "OBJECTID">>,
   date_field |-> <<"OCC_DATE", "REPORT_DATE">>,
   year_field |-> <<"OCC_YEAR">>,
   month_field |-> <<"OCC_MONTH">>,
   day_field |-> <<"OCC_DAY", "OCC_DOW">>,
   hour_field |-> <<"OCC_HOUR">>,
   neighbourhood_fields |-> <<"NEIGHBOURHOOD_158", "NEIGHBOURHOOD_140",
                              "HOOD_158", "NEIGHBOURHOOD">>,
   premise_fields |-> <<"PREMISES_TYPE", "PREMISE_TYPE">>,
   lat_fields |-> <<"LAT_WGS84", "Y">>,
   lng_fields |-> <<"LONG_WGS84", "X">>,
   status_fields |-> <<"STATUS">>,
   division_fields |-> <<"DIVISION">>,
   location_fields |-> <<"LOCATION_TYPE">>]

MonthNames ==
  <<"January", "February", "March", "April", "May", "June", "July",
    "August", "September", "October", "November", "December">>

\* MONTH_NAME_TO_NUM.get(name, default)
MONTH_NAME_TO_NUM(name, default) ==
  IF \E i \in 1..12 : MonthNames[i] = name
    THEN CHOOSE i \in 1..12 : MonthNames[i] = name
    ELSE default

\* attrs.get(name): None for a key that is absent
Get(attrs, name) == IF name \in DOMAIN attrs THEN attrs[name] ELSE NoneV

\* Mutant: `if val:` in place of `if val is not None`.
_first_of_SkipsFalsy(attrs, field_names, default) ==
  IF \E i \in 1..Len(field_names) : Truthy(Get(attrs, field_names[i]))
    THEN Get(attrs, field_names[
           CHOOSE i \in 1..Len(field_names) :
             /\ Truthy(Get(attrs, field_names[i]))
             /\ \A j \in 1..(i - 1) : ~Truthy(Get(attrs, field_names[j]))])
    ELSE default

\* The first value that is not None among the candidate keys, in order.
_first_of(attrs, field_names, default) ==
  IF \E i \in 1..Len(field_names) : Get(attrs, field_names[i]) # NoneV
    THEN Get(attrs, field_names[
           CHOOSE i \in 1..Len(field_names) :
             /\ Get(attrs, field_names[i]) # NoneV
             /\ \A j \in 1..(i - 1) : Get(attrs, field_names[j]) = NoneV])
    ELSE default

\* parse_month: always an int
parse_month(raw_month) ==
  CASE raw_month.t = "int" -> raw_month.n
    [] raw_month.t = "ms" -> raw_month.n * 1000
    [] raw_month.t = "float" -> Trunc(raw_month.n)
    [] raw_month.t = "str" -> MONTH_NAME_TO_NUM(raw_month.s, 1)
    [] OTHER -> 1

\* `isinstance(raw_date, (int, float)) and raw_date > 1_000_000_000`
IsEpochMs(raw_date) ==
  \/ raw_date.t = "ms" /\ raw_date.n > 1000000
  \/ raw_date.t = "int" /\ raw_date.n > 1000000000
  \/ /\ raw_date.t = "float"
     /\ \/ Trunc(raw_date.n) > 1000000000
        \/ Trunc(raw_date.n) = 1000000000 /\ raw_date.n % Unit # 0

\* The whole seconds of a timestamp given in milliseconds.
EpochSeconds(raw_date) ==
  CASE raw_date.t = "ms" -> raw_date.n
    [] raw_date.t = "int" -> raw_date.n \div 1000
    [] OTHER -> Trunc(raw_date.n) \div 1000

DateText(y, m, d) ==
  FormatInt(y, 4) \o "-" \o FormatInt(m, 2) \o "-" \o FormatInt(d, 2)

\* parse_date_string; `month` is the int parse_month returned.
parse_date_string(raw_date, year, month, day, now) ==
  IF IsEpochMs(raw_date)
    THEN LET dt == CivilFromDays(EpochSeconds(raw_date) \div 86400)
         IN  DateText(dt.year, dt.month, dt.day)
  ELSE IF raw_date.t = "str" /\ Len(raw_date.s) >= 10
    THEN SubSeq(raw_date.s, 1, 10)
  ELSE IF PyInt(year).ok /\ PyInt(day).ok
    THEN DateText(PyInt(year).n, month, PyInt(day).n)
  ELSE IntText(now.year) \o "-01-01"

\* ------------------------------------------------------------------------
\* process_features: one pass of the loop over raw_features
\* ------------------------------------------------------------------------
LAT_MIN == 41
LAT_MAX == 57
LNG_MIN == -95
LNG_MAX == -73

\* The coordinates of a feature as <<lat, lng>> in units: the geometry, else
\* the attribute fallbacks; absent is 0.0, and so are both when either
\* conversion raises.
Coordinates(feature) ==
  LET geometry == feature.geometry
      gy == IF geometry.present THEN geometry.y ELSE NoneV
      gx == IF geometry.present THEN geometry.x ELSE NoneV
      fallback == gy = NoneV \/ gx = NoneV
      lat == IF fallback
               THEN _first_of(feature.attributes, FIELD_MAP.lat_fields, NoneV)
               ELSE gy
      lng == IF fallback
               THEN _first_of(feature.attributes, FIELD_MAP.lng_fields, NoneV)
               ELSE gx
      flat == IF lat # NoneV THEN PyFloat(lat) ELSE Ok(0)
      flng == IF lng # NoneV THEN PyFloat(lng) ELSE Ok(0)
  IN  IF flat.ok /\ flng.ok THEN <<flat.n, flng.n>> ELSE <<0, 0>>

\* `lat == 0.0 and lng == 0.0`
ZeroCoordinates(lat, lng) == lat = 0 /\ lng = 0

\* Mutant: the western edge of the box is not checked.
InOntario_NoWestEdge(lat, lng) ==
  /\ LAT_MIN * Unit <= lat /\ lat <= LAT_MAX * Unit
  /\ lng <= LNG_MAX * Unit

\* `41.0 <= lat <= 57.0 and -95.0 <= lng <= -73.0`
InOntario(lat, lng) ==
  /\ LAT_MIN * Unit <= lat /\ lat <= LAT_MAX * Unit
  /\ LNG_MIN * Unit <= lng /\ lng <= LNG_MAX * Unit

\* Mutant: the years are compared and the months forgotten.
OutsideWindow_YearOnly(record_year, record_month, cutoff) ==
  record_year < cutoff.year

\* `if record_ym < cutoff_ym` on year*100+month composites
OutsideWindow(record_year, record_month, cutoff) ==
  record_year * 100 + record_month < cutoff.year * 100 + cutoff.month

\* `int(x) if x else default`
IntOrDefault(x, default) == IF Truthy(x) THEN PyInt(x) ELSE Ok(default)

\* What the loop body does with one feature when clean_records holds
\* n_clean records: the verdict and, when it is "clean", the record.
process_feature(feature, tag, n_clean, now) ==
  LET attrs == feature.attributes
      coords == Coordinates(feature)
      lat == coords[1]
      lng == coords[2]
      record_id == _first_of(attrs, FIELD_MAP.id_fields,
                             StrV(IntText(n_clean)))
      raw_date == _first_of(attrs, FIELD_MAP.date_field, StrV(""))
      year == _first_of(attrs, FIELD_MAP.year_field, IntV(now.year))
      raw_month == _first_of(attrs, FIELD_MAP.month_field, IntV(1))
      day == _first_of(attrs, FIELD_MAP.day_field, IntV(1))
      hour == _first_of(attrs, FIELD_MAP.hour_field, IntV(12))
      neighbourhood == _first_of(attrs, FIELD_MAP.neighbourhood_fields,
                                 StrV("Unknown"))
      premise_type == _first_of(attrs, FIELD_MAP.premise_fields,
                                StrV("Unknown"))
      status == _first_of(attrs, FIELD_MAP.status_fields, StrV("Unknown"))
      month == parse_month(raw_month)
      date_str == parse_date_string(raw_date, year, month, day, now)
      record_year == IntOrDefault(year, 0)
      year_out == IntOrDefault(year, now.year)
      day_out == IntOrDefault(day, 1)
      hour_out == IntOrDefault(hour, 0)
      none == [verdict |-> "none", record |-> <<>>]
  IN  IF ZeroCoordinates(lat, lng) \/ ~InOntario(lat, lng)
        THEN [none EXCEPT !.verdict = "bad_coords"]
      ELSE IF record_year.ok
                /\ OutsideWindow(record_year.n, month, CutoffDate(now))
        THEN [none EXCEPT !.verdict = "outside_window"]
      ELSE IF ~(year_out.ok /\ day_out.ok /\ hour_out.ok)
        THEN [none EXCEPT !.verdict = "raised"]
      ELSE [verdict |-> "clean",
            record |->
              [id |-> tag \o "-" \o PyStr(record_id),
               type |-> tag,
               date |-> date_str,
               year |-> year_out.n,
               month |-> month,
               day |-> day_out.n,
               hour |-> hour_out.n,
               neighbourhood |-> Strip(PyStr(neighbourhood)),
               premiseType |-> Strip(PyStr(premise_type)),
               lat |-> Round6(lat),
               lng |-> Round6(lng),
               status |-> Strip(PyStr(status))]]

\* Mutant: an accepted record is put in front of the earlier ones.
Folded_Prepending(st, r) ==
  [clean |-> IF r.verdict = "clean" THEN <<r.record>> \o st.clean
             ELSE st.clean,
   coords |-> st.coords + (IF r.verdict = "bad_coords" THEN 1 ELSE 0),
   date |-> st.date + (IF r.verdict = "outside_window" THEN 1 ELSE 0),
   raised |-> r.verdict = "raised",
   verdicts |-> Append(st.verdicts, r.verdict)]

\* The state of process_features from one verdict to the next.
Folded(st, r) ==
  [clean |-> IF r.verdict = "clean" THEN Append(st.clean, r.record)
             ELSE st.clean,
   coords |-> st.coords + (IF r.verdict = "bad_coords" THEN 1 ELSE 0),
   date |-> st.date + (IF r.verdict = "outside_window" THEN 1 ELSE 0),
   raised |-> r.verdict = "raised",
   verdicts |-> Append(st.verdicts, r.verdict)]

\* ------------------------------------------------------------------------
\* The inputs of process_features
\* ------------------------------------------------------------------------
\* How many features a list of several features holds at most.
MaxFeatures == 2

NoAttrs == [k \in {} |-> NoneV]
Geo(x, y) == [present |-> TRUE, x |-> x, y |-> y]
NoGeometry == [present |-> FALSE, x |-> NoneV, y |-> NoneV]
Feature(geometry, attributes) ==
  [geometry |-> geometry, attributes |-> attributes]

\* 43.7 N, 79.4 W: downtown Toronto
TorontoLat == FloatV(437000000)
TorontoLng == FloatV(-794000000)
Toronto == Geo(TorontoLng, TorontoLat)

\* <<lat, lng>> in units: inside the box, on its edges, one unit outside
\* each edge, values that round onto an edge, and one zero coordinate.
CoordinatePairs ==
  {<<437000000, -794000000>>,
   <<410000000, -950000000>>, <<570000000, -730000000>>,
   <<570000001, -794000000>>, <<409999999, -794000000>>,
   <<437000000, -950000001>>, <<437000000, -729999999>>,
   <<569999999, -730000004>>, <<410000004, -949999996>>,
   <<437000000, 0>>, <<0, -794000000>>}

\* Where the coordinates of a feature can come from.
CoordinateCases ==
  {[geometry |-> Geo(FloatV(c[2]), FloatV(c[1])), attributes |-> NoAttrs] :
     c \in CoordinatePairs}
  \cup
  {[geometry |-> Geo(IntV(0), IntV(0)), attributes |-> NoAttrs],
   [geometry |-> NoGeometry, attributes |-> NoAttrs],
   [geometry |-> Geo(TorontoLng, NoneV),
    attributes |-> ("LAT_WGS84" :> TorontoLat) @@ ("LONG_WGS84" :> TorontoLng)],
   [geometry |-> Geo(TorontoLng, NoneV), attributes |-> NoAttrs],
   [geometry |-> NoGeometry,
    attributes |-> ("LAT_WGS84" :> StrV("43.7"))
                     @@ ("LONG_WGS84" :> StrV("-79.4"))],
   [geometry |-> NoGeometry,
    attributes |-> ("LAT_WGS84" :> StrV("abc"))
                     @@ ("LONG_WGS84" :> StrV("-79.4"))],
   [geometry |-> NoGeometry,
    attributes |-> ("Y" :> TorontoLat) @@ ("X" :> TorontoLng)],
   [geometry |-> Geo(StrV("abc"), TorontoLat), attributes |-> NoAttrs],
   [geometry |-> Geo(ListV, TorontoLat), attributes |-> NoAttrs]}

One(name, values) == {name :> v : v \in values}

YearCases ==
  {NoAttrs} \cup One("OCC_YEAR", {IntV(2026), IntV(2025), IntV(0), NoneV,
                                 StrV("2026"), StrV("abc"), ListV})

MonthCases ==
  {NoAttrs} \cup One("OCC_MONTH",
                     {StrV("October"), StrV("March"), StrV("May"),
                      StrV("April"), StrV("December"), StrV("Unknownmonth"),
                      StrV("10"), IntV(7), IntV(0), IntV(13),
                      FloatV(10 * Unit), ListV})

DayCases ==
  {NoAttrs, "OCC_DOW" :> StrV("Monday"),
   ("OCC_DAY" :> NoneV) @@ ("OCC_DOW" :> StrV("Monday")),
   ("OCC_DAY" :> IntV(15)) @@ ("OCC_DOW" :> StrV("Monday"))}
  \cup One("OCC_DAY", {IntV(15), IntV(0), StrV("15"), ListV})

HourCases ==
  {NoAttrs} \cup One("OCC_HOUR", {IntV(1), IntV(0), StrV("noon"), ListV})

DateCases ==
  {NoAttrs, "REPORT_DATE" :> EpochV(1700000000)}
  \cup One("OCC_DATE", {EpochV(1700000000), StrV("2024-05-01T00:00:00"),
                        StrV("x"), IntV(2026), ListV})

IdCases ==
  {NoAttrs, "EVENT_UNIQUE_ID" :> StrV("GO-1"), "OBJECTID" :> IntV(5),
   ("EVENT_UNIQUE_ID" :> StrV("GO-1")) @@ ("OBJECTID" :> IntV(5))}

TextCases ==
  {NoAttrs, "HOOD_158" :> StrV("Annex"),
   ("NEIGHBOURHOOD_140" :> StrV(" Rosedale ")) @@ ("HOOD_158" :> StrV("Annex"))
     @@ ("STATUS" :> StrV("STOLEN")) @@ ("PREMISE_TYPE" :> StrV("House"))}

\* A record inside the window of every date of Todays.
Recent == ("OCC_YEAR" :> IntV(2026)) @@ ("OCC_MONTH" :> StrV("October"))

\* Single features: every coordinate case with every year and month, and a
\* well-placed recent feature with every day, hour, date, id and text case.
Features ==
  {Feature(c.geometry, c.attributes @@ y @@ m @@ ("OBJECTID" :> IntV(5))) :
     c \in CoordinateCases, y \in YearCases, m \in MonthCases}
  \cup
  {Feature(Toronto, Recent @@ d @@ h @@ dt @@ i @@ t) :
     d \in DayCases, h \in HourCases, dt \in DateCases, i \in IdCases,
     t \in TextCases}

\* The features of the lists of several features: two with the same id, one
\* without an id, one at (0,0), one years old, one with an unparseable year.
ListFeatures ==
  {Feature(Toronto, Recent @@ ("OBJECTID" :> IntV(5))),
   Feature(Toronto, Recent @@ ("OBJECTID" :> IntV(5))
                      @@ ("OCC_DAY" :> IntV(15))),
   Feature(Toronto, Recent),
   Feature(Geo(IntV(0), IntV(0)), Recent @@ ("OBJECTID" :> IntV(6))),
   Feature(Toronto, ("OCC_YEAR" :> IntV(2020)) @@ ("OBJECTID" :> IntV(7))),
   Feature(Toronto, ("OCC_YEAR" :> StrV("abc")) @@ ("OBJECTID" :> IntV(8)))}

RECURSIVE ListsUpTo(_, _)
ListsUpTo(S, n) ==
  IF n = 0 THEN {<<>>}
  ELSE LET shorter == ListsUpTo(S, n - 1)
       IN  shorter \cup {Append(l, f) : l \in shorter, f \in S}

FeatureLists ==
  {<<f>> : f \in Features} \cup ListsUpTo(ListFeatures, MaxFeatures)

\* The dates of the runs: the cutoff falls in May of the same year, on the
\* last day of the year before, and in September of the year before.
Todays ==
  {[year |-> 2026, month |-> 11, day |-> 6],
   [year |-> 2026, month |-> 6, day |-> 29],
   [year |-> 2026, month |-> 3, day |-> 1]}

TheftTypes == {"auto", "bike"}

\* ------------------------------------------------------------------------
\* process_features as a state machine
\* ------------------------------------------------------------------------
TransformIdle ==
  /\ raw_features = <<>>
  /\ theft_type = "auto"
  /\ today = [year |-> 2026, month |-> 11, day |-> 6]
  /\ tpc = "idle"
  /\ idx = 0
  /\ clean_records = <<>>
  /\ discarded_coords = 0
  /\ discarded_date = 0
  /\ verdicts = <<>>

\* process_features is entered with a list, a category and a clock.
TransformStart ==
  /\ raw_features \in FeatureLists
  /\ theft_type \in TheftTypes
  /\ today \in Todays
  /\ tpc = "loop"
  /\ idx = 0
  /\ clean_records = <<>>
  /\ discarded_coords = 0
  /\ discarded_date = 0
  /\ verdicts = <<>>

\* One pass of `for feature in raw_features`.
process_next ==
  /\ tpc = "loop"
  /\ idx < Len(raw_features)
  /\ LET st == [clean |-> clean_records, coords |-> discarded_coords,
                date |-> discarded_date, raised |-> FALSE,
                verdicts |-> verdicts]
         r == process_feature(raw_features[idx + 1], theft_type,
                              Len(clean_records), today)
         nxt == Folded(st, r)
     IN  /\ clean_records' = nxt.clean
         /\ discarded_coords' = nxt.coords
         /\ discarded_date' = nxt.date
         /\ verdicts' = nxt.verdicts
         /\ tpc' = IF nxt.raised THEN "raised" ELSE "loop"
  /\ idx' = idx + 1
  /\ UNCHANGED <<raw_features, theft_type, today>>
  /\ UNCHANGED <<fetchVars, httpVars, histVars, mainVars, sortVars>>

\* The loop is over: the counters are printed and clean_records returned.
process_return ==
  /\ tpc = "loop"
  /\ idx = Len(raw_features)
  /\ tpc' = "returned"
  /\ UNCHANGED <<raw_features, theft_type, today, idx, clean_records,
                 discarded_coords, discarded_date, verdicts>>
  /\ UNCHANGED <<fetchVars, httpVars, histVars, mainVars, sortVars>>

\* process_features as a whole: the loop run to its end, or to the first
\* feature that raises.
RECURSIVE process_loop(_, _, _, _)
process_loop(st, raw, tag, now) ==
  IF raw = <<>> \/ st.raised THEN st
  ELSE process_loop(
         Folded(st, process_feature(Head(raw), tag, Len(st.clean), now)),
         Tail(raw), tag, now)

process_features(raw, tag, now) ==
  process_loop([clean |-> <<>>, coords |-> 0, date |-> 0, raised |-> FALSE,
                verdicts |-> <<>>], raw, tag, now)

\* ------------------------------------------------------------------------
\* main
\* ------------------------------------------------------------------------
\* The keys of ENDPOINTS, in the order of the dict.
Categories == <<"auto", "bike">>

\* What fetch_features can hand to main: a list of raw features (empty when
\* every strategy failed), or an exception of its own.
FetchOutcomes ==
  {[ran |-> TRUE, raised |-> TRUE, features |-> <<>>]}
    \cup {[ran |-> TRUE, raised |-> FALSE, features |-> l] :
            l \in ListsUpTo(ListFeatures, MaxFeatures)}

NotFetched == [ran |-> FALSE, raised |-> FALSE, features |-> <<>>]

\* save_json(records, filename)
save_json(fs, category, records) ==
  [fs EXCEPT ![category] = [state |-> "written", records |-> records]]

\* Mutant: the handler logs the error and writes nothing.
OnFatalError_NoFile(fs, category) == fs

\* `except Exception` of main: an empty file is written for the category.
OnFatalError(fs, category) == save_json(fs, category, <<>>)

\* Mutant: the total is overwritten by the last category's count.
Accumulated_Overwritten(total, records) == Len(records)

\* `total_records += len(clean_records)`
Accumulated(total, records) == total + Len(records)

\* `if total_records == 0: sys.exit(1)`, else `return 0`
ExitStatus(total) == IF total = 0 THEN 1 ELSE 0

MainIdle ==
  /\ mpc = "idle"
  /\ cat = 0
  /\ files = [c \in {"auto", "bike"} |-> [state |-> "missing", records |-> <<>>]]
  /\ total_records = 0
  /\ exit_status = -1
  /\ fetched = [c \in {"auto", "bike"} |-> NotFetched]

\* main is entered; an output file of an earlier run may exist.
MainStart ==
  /\ mpc = "loop"
  /\ cat = 1
  /\ files \in [{"auto", "bike"} ->
                  {[state |-> st, records |-> <<>>] : st \in {"missing", "stale"}}]
  /\ total_records = 0
  /\ exit_status = -1
  /\ fetched = [c \in {"auto", "bike"} |-> NotFetched]

\* One pass of `for theft_type, endpoint_url in ENDPOINTS.items()`:
\* extract, transform, load, or the empty file on any exception.
main_category ==
  /\ mpc = "loop"
  /\ cat <= Len(Categories)
  /\ \E got \in FetchOutcomes :
       LET category == Categories[cat]
           done == process_features(got.features, category, today)
       IN  /\ fetched' = [fetched EXCEPT ![category] = got]
           /\ IF got.raised \/ done.raised
                THEN /\ files' = OnFatalError(files, category)
                     /\ total_records' = total_records
                ELSE /\ files' = save_json(files, category, done.clean)
                     /\ total_records' = Accumulated(total_records, done.clean)
  /\ cat' = cat + 1
  /\ UNCHANGED <<mpc, exit_status>>
  /\ UNCHANGED <<fetchVars, httpVars, histVars, transformVars,
                 sortVars>>

\* After the loop: the summary, then the exit status.
main_exit ==
  /\ mpc = "loop"
  /\ cat > Len(Categories)
  /\ exit_status' = ExitStatus(total_records)
  /\ mpc' = "done"
  /\ UNCHANGED <<cat, files, total_records, fetched>>
  /\ UNCHANGED <<fetchVars, httpVars, histVars, transformVars,
                 sortVars>>

\* ------------------------------------------------------------------------
\* The end of fetch_features: sort_key and the sort in memory
\* ------------------------------------------------------------------------
\* How many features the accumulated list of the sort holds at most.
MaxSorted == 3

\* A sort key is an integer too wide for one machine word here: it is kept
\* as hi * 1000000 + lo with 0 <= lo < 1000000.
Wide(hi, lo) ==
  [ok |-> TRUE, hi |-> hi + lo \div 1000000, lo |-> lo % 1000000]
KeyError == [ok |-> FALSE, hi |-> 0, lo |-> 0]

\* `attrs.get("OCC_DATE") or attrs.get("REPORT_DATE")`
SortDate(attrs) ==
  IF Truthy(Get(attrs, "OCC_DATE")) THEN Get(attrs, "OCC_DATE")
  ELSE Get(attrs, "REPORT_DATE")

\* An epoch-millisecond value as a wide integer.
EpochKey(occ_date) ==
  CASE occ_date.t = "ms" ->
         Wide(occ_date.n \div 1000, (occ_date.n % 1000) * 1000)
    [] occ_date.t = "int" -> Wide(0, occ_date.n)
    [] OTHER -> Wide(0, Trunc(occ_date.n))

\* `attrs.get("OCC_YEAR", 0) or 0`, as the factor of `year * 100000000`: a
\* string or a list times an int is a sequence, and adding an int to it
\* raises TypeError.
SortYear(attrs) ==
  LET year == Get(attrs, "OCC_YEAR")
  IN  IF ~Truthy(year) THEN Ok(0)
      ELSE IF year.t \in {"int", "ms", "float"} THEN PyInt(year)
      ELSE Raises

\* `attrs.get("OCC_MONTH", "")`, a name looked up with default 0, then
\* `int(month or 0)`
SortMonth(attrs) ==
  LET raw == IF "OCC_MONTH" \in DOMAIN attrs THEN attrs["OCC_MONTH"]
             ELSE StrV("")
      month == IF raw.t = "str" THEN IntV(MONTH_NAME_TO_NUM(raw.s, 0))
               ELSE raw
  IN  IntOrDefault(month, 0)

\* The key without its sign: the epoch date, else the composite
\* year*100000000 + month*1000000 + day*10000 + hour*100.
DerivedKey(feature) ==
  LET attrs == feature.attributes
      occ_date == SortDate(attrs)
      year == SortYear(attrs)
      month == SortMonth(attrs)
      day == IntOrDefault(Get(attrs, "OCC_DAY"), 0)
      hour == IntOrDefault(Get(attrs, "OCC_HOUR"), 0)
  IN  IF IsEpochMs(occ_date) THEN EpochKey(occ_date)
      ELSE IF year.ok /\ month.ok /\ day.ok /\ hour.ok
        THEN Wide(year.n * 100 + month.n, day.n * 10000 + hour.n * 100)
      ELSE KeyError

\* Mutant: the key is returned without the minus sign.
Negated_Forgotten(k) == k

\* `return -occ_date`, `return -(...)`
Negated(k) == IF k.ok THEN Wide(-k.hi, -k.lo) ELSE k

sort_key(feature) == Negated(DerivedKey(feature))

\* key(a) < key(b)
Less(a, b) == a.hi < b.hi \/ (a.hi = b.hi /\ a.lo < b.lo)

\* list.sort(key=...) is stable and ascending: an item goes before the first
\* item whose key is greater than its own.
RECURSIVE Insert(_, _)
Insert(s, x) ==
  IF s = <<>> THEN <<x>>
  ELSE IF Less(x.key, Head(s).key) THEN <<x>> \o s
  ELSE <<Head(s)>> \o Insert(Tail(s), x)

RECURSIVE list_sort(_)
list_sort(s) ==
  IF s = <<>> THEN <<>>
  ELSE Insert(list_sort(SubSeq(s, 1, Len(s) - 1)), s[Len(s)])

\* The features the sort is given (only the attributes matter): epoch dates
\* on OCC_DATE and on REPORT_DATE, composites with a month name, a month
\* number, a day given as text, a tie, nothing at all, a date string, and a
\* year that is no number.
SortFeatures ==
  {Feature(Toronto, "OCC_DATE" :> EpochV(1700000000)),
   Feature(Toronto, "OCC_DATE" :> EpochV(1750000123)),
   Feature(Toronto, ("OCC_DATE" :> NoneV)
                      @@ ("REPORT_DATE" :> EpochV(1720000000))),
   Feature(Toronto, ("OCC_YEAR" :> IntV(2026)) @@ ("OCC_MONTH" :> StrV("March"))
                      @@ ("OCC_DAY" :> IntV(15)) @@ ("OCC_HOUR" :> IntV(1))),
   Feature(Toronto, Recent),
   Feature(Toronto, ("OCC_YEAR" :> IntV(2026)) @@ ("OCC_MONTH" :> IntV(10))),
   Feature(Toronto, ("OCC_YEAR" :> IntV(2025))
                      @@ ("OCC_MONTH" :> StrV("December"))
                      @@ ("OCC_DAY" :> StrV("15"))),
   Feature(NoGeometry, NoAttrs),
   Feature(Toronto, ("OCC_DATE" :> StrV("2024-05-01T00:00:00"))
                      @@ ("OCC_YEAR" :> IntV(2024))
                      @@ ("OCC_MONTH" :> StrV("May"))),
   Feature(Toronto, "OCC_YEAR" :> StrV("abc"))}

SortIdle ==
  /\ spc = "idle"
  /\ accumulated = <<>>
  /\ keyed = <<>>
  /\ returned = <<>>

\* The strategy loop is over with `accumulated` in all_features.
SortStart ==
  /\ spc = "after_loop"
  /\ accumulated \in ListsUpTo(SortFeatures, MaxSorted)
  /\ keyed = <<>>
  /\ returned = <<>>

\* `if not all_features: return []`, else the sort starts.
sort_begin ==
  /\ spc = "after_loop"
  /\ spc' = IF accumulated = <<>> THEN "returned" ELSE "keys"
  /\ UNCHANGED <<accumulated, keyed, returned>>
  /\ UNCHANGED <<fetchVars, httpVars, histVars, transformVars, mainVars>>

\* The sort calls sort_key on the next item; an exception of sort_key leaves
\* fetch_features.
sort_key_call ==
  /\ spc = "keys"
  /\ Len(keyed) < Len(accumulated)
  /\ LET feature == accumulated[Len(keyed) + 1]
         key == sort_key(feature)
     IN  IF key.ok
           THEN /\ keyed' = Append(keyed, [feature |-> feature, key |-> key])
                /\ spc' = spc
           ELSE /\ keyed' = keyed
                /\ spc' = "raised"
  /\ UNCHANGED <<accumulated, returned>>
  /\ UNCHANGED <<fetchVars, httpVars, histVars, transformVars, mainVars>>

\* Every key is computed: the list is sorted and returned.
sort_return ==
  /\ spc = "keys"
  /\ Len(keyed) = Len(accumulated)
  /\ returned' = [i \in 1..Len(keyed) |-> list_sort(keyed)[i].feature]
  /\ spc' = "returned"
  /\ UNCHANGED <<accumulated, keyed>>
  /\ UNCHANGED <<fetchVars, httpVars, histVars, transformVars, mainVars>>

\* ------------------------------------------------------------------------
\* Specifications
\* ------------------------------------------------------------------------
InitFetch == FetchStart /\ TransformIdle /\ MainIdle /\ SortIdle

NextFetch ==
  \/ fetch_begin
  \/ http_attempt
  \/ http_sleep
  \/ discover_return
  \/ strategy_begin
  \/ page_return
  \/ page_raise
  \/ fetch_return

SpecFetch == InitFetch /\ [][NextFetch]_vars

\* fetch_features is sequential code that keeps running: every HTTP attempt
\* returns or fails, every sleep ends, and the step that follows is taken.
SpecFetchFair == InitFetch /\ [][NextFetch]_vars /\ WF_vars(NextFetch)

InitTransform == FetchStart /\ TransformStart /\ MainIdle /\ SortIdle

NextTransform ==
  \/ process_next
  \/ process_return

SpecTransform == InitTransform /\ [][NextTransform]_vars

\* main runs on one of the dates; process_features is used as a whole.
InitMain ==
  /\ FetchStart
  /\ raw_features = <<>>
  /\ theft_type = "auto"
  /\ today \in Todays
  /\ tpc = "idle"
  /\ idx = 0
  /\ clean_records = <<>>
  /\ discarded_coords = 0
  /\ discarded_date = 0
  /\ verdicts = <<>>
  /\ MainStart
  /\ SortIdle

NextMain ==
  \/ main_category
  \/ main_exit

SpecMain == InitMain /\ [][NextMain]_vars

\* The tail of fetch_features on an accumulated list.
InitSort == FetchStart /\ TransformIdle /\ MainIdle /\ SortStart

NextSort ==
  \/ sort_begin
  \/ sort_key_call
  \/ sort_return

SpecSort == InitSort /\ [][NextSort]_vars

\* ========================================================================
\* Properties of fetch_features and http_get_json (checked under SpecFetch)
\* ========================================================================
Last(s) == s[Len(s)]

\* The HTTP attempts of the current call, sleeps left out.
Attempts == {i \in 1..Len(log) : log[i] # "sleep"}

\* C1: fetch_features tries the strategies in their built order and never
\* propagates a strategy's failure: a strategy is requested only after every
\* earlier one raised or ended with zero features; the first strategy that
\* ends with a nonzero count is accepted, no later one is requested, and its
\* features are what is returned; the loop is left only on acceptance or
\* after the last strategy.
C1_StrategyFallback ==
  /\ pc \in {"strategy", "page"} =>
       /\ strategy \in 1..Len(where_strategies)
       /\ Len(outcomes) = strategy - 1
       /\ \A i \in 1..Len(outcomes) : outcomes[i] \in {"raised", "zero"}
  /\ pc \in {"after_loop", "done"} =>
       /\ Len(outcomes) >= 1
       /\ \A i \in 1..(Len(outcomes) - 1) : outcomes[i] \in {"raised", "zero"}
       /\ Last(outcomes) = "accepted" => all_features > 0
       /\ Last(outcomes) = "zero" => all_features = 0
       /\ (Last(outcomes) # "accepted" \/ all_features = 0)
            => Len(outcomes) = Len(where_strategies)
  /\ pc = "done" => result = all_features
  /\ (pc = "done" /\ outcomes = <<"raised", "accepted">> /\ page_calls = 1
        /\ data.count = SmallPage)
       => result = SmallPage

\* C1 witness: the first filter failed after its retries, the unconditional
\* fallback returned one page of 10 features, and those 10 are returned.
C1_Witness ==
  /\ pc = "done"
  /\ where_strategies = <<WhereYear, WhereAll>>
  /\ outcomes = <<"raised", "accepted">>
  /\ page_calls = 1
  /\ result = SmallPage

\* C2: fetch_features returns a non-empty list only when some strategy's
\* paging ended through a stop condition with a nonzero count; when every
\* strategy raised or accumulated nothing, the result is empty.
C2_EmptyUnlessAccepted ==
  (pc = "done" /\ result > 0) => Last(outcomes) = "accepted"

\* C3: paging starts at offset 0, and after a page it stops exactly when the
\* page is empty, or the accumulated count is >= 100,000, or the
\* exceededTransferLimit flag is off and the page is shorter than PAGE_SIZE;
\* otherwise the next page is requested. A full first page followed by an
\* empty second page gives PAGE_SIZE features after two requests.
C3_PagingStops ==
  [][/\ (pc = "page" /\ page_calls = 1) => offset = 0
     /\ (pc = "page" /\ hpc = "returned") =>
          LET count == data.count
              total == all_features + count
              stop == \/ count = 0
                      \/ total >= SAFETY_LIMIT
                      \/ (~data.flag /\ count < PAGE_SIZE)
              again == /\ pc' = "page"
                       /\ hpc' = "try"
                       /\ strategy' = strategy
                       /\ page_calls' = page_calls + 1
          IN  /\ stop <=> ~again
              /\ stop => (pc' # "page" /\ page_calls' = page_calls)
              /\ all_features' = total
              /\ (page_calls = 2 /\ all_features = PAGE_SIZE /\ count = 0)
                   => /\ all_features' = PAGE_SIZE
                      /\ page_calls' = 2
                      /\ pc' = "after_loop"]_vars

\* C3 witness: a strategy that got PAGE_SIZE features on page 1 and none on
\* page 2 has ended.
C3_Witness ==
  /\ pc = "after_loop"
  /\ page_calls = 2
  /\ data.kind = "json"
  /\ data.count = 0
  /\ all_features = PAGE_SIZE
  /\ offset = PAGE_SIZE

\* C4: a call of http_get_json makes at most MAX_RETRIES attempts, returns
\* the body of the first successful attempt without a further attempt, sleeps
\* only between two attempts, and raises after MAX_RETRIES retryable
\* failures.
C4_RetryBudget ==
  /\ Cardinality(Attempts) <= MAX_RETRIES
  /\ \A i \in 1..Len(log) : log[i] \in {"ok", "bad"} => i = Len(log)
  /\ \A i \in 1..Len(log) :
       log[i] = "sleep" =>
         /\ i > 1 /\ log[i - 1] = "fail"
         /\ IF i < Len(log) THEN log[i + 1] # "sleep" ELSE hpc = "try"
  /\ hpc = "returned" =>
       /\ Last(log) = "ok"
       /\ data = last_resp
       /\ data.kind = "json"
  /\ (hpc = "raised" /\ exc = "retryable") =>
       log = <<"fail", "sleep", "fail", "sleep", "fail">>
  /\ (hpc # "idle" /\ Cardinality({i \in 1..Len(log) : log[i] = "fail"}) = MAX_RETRIES)
       => (hpc = "raised" /\ exc = "retryable")
  /\ hpc # "returned_none"

\* C4 witness: a call that failed three times has raised.
C4_Witness ==
  /\ hpc = "raised"
  /\ exc = "retryable"
  /\ Cardinality(Attempts) = MAX_RETRIES

\* C5: a body that carries an `error` member is never returned by
\* http_get_json: the attempt counts as failed and takes the retry path of a
\* transport error, and no caller reads a body that embeds an error.
C5_ErrorBodyIsFailure ==
  /\ ~read_error
  /\ hpc = "returned" => ~data.error
  /\ ~data.error
  /\ (hpc \notin {"idle"} /\ last_resp.kind \in {"json", "neterr"}
        /\ (last_resp.kind = "json" => last_resp.error)) =>
       /\ hpc \in {"sleep", "try", "raised"}
       /\ log # <<>>
       /\ log[Len(log) - (IF Last(log) = "sleep" THEN 1 ELSE 0)] = "fail"
       /\ hpc = "raised" => (exc = "retryable" /\ Cardinality(Attempts) = MAX_RETRIES)
       /\ hpc = "sleep" => Cardinality(Attempts) < MAX_RETRIES

\* C5 witness: a page request got a 200 response with an embedded error on
\* its last attempt and the call raised.
C5_Witness ==
  /\ pc = "page"
  /\ last_resp = ErrorBody
  /\ hpc = "raised"

\* ========================================================================
\* Properties of process_features (checked under SpecTransform)
\* ========================================================================
Consumed == 1..idx
Count(verdict) == Cardinality({k \in Consumed : verdicts[k] = verdict})

\* C8: process_features never raises because of one malformed feature: the
\* malformed field degrades to its default and the loop goes on.
C8_NeverRaises == tpc # "raised"

\* <<lat, lng>> is (0,0) or lies outside 41 <= lat <= 57, -95 <= lng <= -73.
BadCoordinates(c) ==
  \/ (c[1] = 0 /\ c[2] = 0)
  \/ c[1] < 41 * Unit \/ c[1] > 57 * Unit
  \/ c[2] < -95 * Unit \/ c[2] > -73 * Unit

\* C9: a feature whose coordinates resolve to (0,0) (absent or unparseable
\* ones do) or lie outside the box is counted as bad and emits no record;
\* every emitted record lies inside the box.
C9_BadCoordinatesDiscarded ==
  /\ \A k \in Consumed :
       LET f == raw_features[k]
           absent == /\ ~f.geometry.present
                     /\ \A name \in {"LAT_WGS84", "Y", "LONG_WGS84", "X"} :
                          name \notin DOMAIN f.attributes
       IN  /\ BadCoordinates(Coordinates(f)) <=> verdicts[k] = "bad_coords"
           /\ absent => verdicts[k] = "bad_coords"
  /\ discarded_coords = Count("bad_coords")
  /\ Len(clean_records) = Count("clean")
  /\ \A i \in 1..Len(clean_records) :
       /\ 41 * Unit <= clean_records[i].lat /\ clean_records[i].lat <= 57 * Unit
       /\ -95 * Unit <= clean_records[i].lng
       /\ clean_records[i].lng <= -73 * Unit

\* C9 witness: a feature one unit west of the box was counted as bad and
\* nothing was emitted.
C9_Witness ==
  /\ tpc = "returned"
  /\ Len(raw_features) = 1
  /\ raw_features[1].geometry = Geo(FloatV(-950000001), FloatV(437000000))
  /\ discarded_coords = 1
  /\ clean_records = <<>>

\* The year*100+month composite of a date.
Composite(d) == d.year * 100 + d.month

\* C10: every emitted record has cutoffYear*100+cutoffMonth <=
\* year*100+month on its emitted fields, the cutoff being the date 180 days
\* before now; a feature inside the box whose composite is below the
\* cutoff's is counted as out of window and emits nothing.
C10_WindowEnforced ==
  /\ \A i \in 1..Len(clean_records) :
       Composite(CutoffDate(today)) <= Composite(clean_records[i])
  /\ \A k \in Consumed :
       LET attrs == raw_features[k].attributes
           year == _first_of(attrs, <<"OCC_YEAR">>, IntV(today.year))
           month == parse_month(_first_of(attrs, <<"OCC_MONTH">>, IntV(1)))
           below == /\ IntOrDefault(year, 0).ok
                    /\ IntOrDefault(year, 0).n * 100 + month
                         < Composite(CutoffDate(today))
       IN  ~BadCoordinates(Coordinates(raw_features[k]))
             => (below <=> verdicts[k] = "outside_window")
  /\ discarded_date = Count("outside_window")
  /\ Len(clean_records) = Count("clean")
  /\ (today = [year |-> 2026, month |-> 11, day |-> 6])
       => CutoffDate(today) = [year |-> 2026, month |-> 5, day |-> 10]
  /\ (today = [year |-> 2026, month |-> 6, day |-> 29])
       => CutoffDate(today) = [year |-> 2025, month |-> 12, day |-> 31]

\* C10 witness: on 2026-11-06 a record of May 2026, the cutoff's own month,
\* was emitted.
C10_Witness ==
  /\ tpc = "returned"
  /\ today = [year |-> 2026, month |-> 11, day |-> 6]
  /\ Len(clean_records) = 1
  /\ Composite(clean_records[1]) = 202605

\* ========================================================================
\* Properties of main (checked under SpecMain)
\* ========================================================================
\* The pipeline of a category failed: fetch_features or process_features
\* raised on what the category was given.
Failed(c) ==
  fetched[c].raised \/ process_features(fetched[c].features, c, today).raised

\* C6: whatever happens to each category (nothing fetched, a raise, or
\* success), a file is written for each of the two categories; a failure of
\* one does not keep the other from being extracted, transformed and
\* written; the file of a failed category holds the empty array.
C6_EveryCategoryWritten ==
  /\ \A k \in 1..Len(Categories) :
       LET c == Categories[k]
       IN  IF k < cat
             THEN /\ fetched[c].ran
                  /\ files[c].state = "written"
                  /\ Failed(c) => files[c].records = <<>>
                  /\ ~Failed(c) =>
                       files[c].records =
                         process_features(fetched[c].features, c, today).clean
             ELSE ~fetched[c].ran /\ files[c].state # "written"
  /\ mpc = "done" =>
       /\ cat = Len(Categories) + 1
       /\ \A k \in 1..Len(Categories) : files[Categories[k]].state = "written"

\* C6 witness: the transform of the first category raised, its file holds
\* the empty array, and the second category was written with a record.
C6_Witness ==
  /\ mpc = "done"
  /\ ~fetched["auto"].raised
  /\ process_features(fetched["auto"].features, "auto", today).raised
  /\ files["auto"] = [state |-> "written", records |-> <<>>]
  /\ files["bike"].state = "written"
  /\ Len(files["bike"].records) >= 1

\* The records written across both categories.
Written == Len(files["auto"].records) + Len(files["bike"].records)

\* C7: main ends with status 1 if and only if no record at all was written
\* across both categories; one populated category makes the run a success.
C7_ExitStatus ==
  /\ mpc # "done" => exit_status = -1
  /\ mpc = "done" =>
       /\ exit_status \in {0, 1}
       /\ exit_status = 1 <=> Written = 0
       /\ (\E k \in 1..Len(Categories) :
             Len(files[Categories[k]].records) >= 1) => exit_status = 0

\* C7 witness: the first category fetched nothing and wrote an empty array,
\* the second wrote a record, and the run ended with status 0.
C7_Witness ==
  /\ mpc = "done"
  /\ fetched["auto"] = [ran |-> TRUE, raised |-> FALSE, features |-> <<>>]
  /\ files["auto"].records = <<>>
  /\ Len(files["bike"].records) >= 1
  /\ exit_status = 0

\* ========================================================================
\* Properties of the emitted records (checked under SpecTransform)
\* ========================================================================
\* C11: a feature with valid in-box coordinates whose year cannot be parsed
\* as an integer is kept: a record is emitted for it, it is neither discarded
\* nor does process_features fail on it.
C11_UnparseableYearKept ==
  \A k \in Consumed :
    LET f == raw_features[k]
        year == _first_of(f.attributes, FIELD_MAP.year_field,
                          IntV(today.year))
    IN  (~BadCoordinates(Coordinates(f)) /\ Truthy(year) /\ ~PyInt(year).ok)
          => verdicts[k] = "clean"

\* C12: the month of every emitted record is an integer in 1..12: "March"
\* maps to 3, 7 to 7, an unrecognized name to 1, and numeric values outside
\* 1..12 never show in a record.
C12_MonthInRange ==
  /\ parse_month(StrV("March")) = 3
  /\ parse_month(IntV(7)) = 7
  /\ parse_month(StrV("Unknownmonth")) = 1
  /\ \A i \in 1..Len(clean_records) : clean_records[i].month \in 1..12

\* C13: within one category's output every id is the category prefix
\* followed by the record's id, and the ids are pairwise distinct, also when
\* features repeat a raw id or have no id field.
C13_IdsDistinct ==
  /\ \A i \in 1..Len(clean_records) :
       LET id == clean_records[i].id
           prefix == theft_type \o "-"
       IN  Len(id) > Len(prefix) /\ SubSeq(id, 1, Len(prefix)) = prefix
  /\ \A i, j \in 1..Len(clean_records) :
       i # j => clean_records[i].id # clean_records[j].id

\* ========================================================================
\* Properties of the sort of fetch_features (checked under SpecSort)
\* ========================================================================
\* How often f occurs in the list s.
Occurrences(s, f) == Cardinality({i \in 1..Len(s) : s[i] = f})

\* C14: the non-empty list fetch_features returns is a permutation of the
\* accumulated features, ordered newest first: the derived key of
\* consecutive features is non-increasing, the key being the epoch
\* millisecond date (OCC_DATE, else REPORT_DATE) when numeric and above
\* 1,000,000,000, else year*100000000 + month*1000000 + day*10000 + hour*100
\* with absent parts as 0 and month names converted.
C14_SortedNewestFirst ==
  /\ (spc = "returned" /\ returned # <<>>) =>
       /\ Len(returned) = Len(accumulated)
       /\ \A i \in 1..Len(accumulated) :
            Occurrences(returned, accumulated[i])
              = Occurrences(accumulated, accumulated[i])
       /\ \A i \in 1..(Len(returned) - 1) :
            ~Less(DerivedKey(returned[i]), DerivedKey(returned[i + 1]))
  /\ (spc = "returned" /\ returned = <<>>) => accumulated = <<>>
  /\ DerivedKey(Feature(Toronto, "OCC_DATE" :> EpochV(1700000000)))
       = Wide(1700000, 0)
  /\ DerivedKey(Feature(Toronto, ("OCC_DATE" :> NoneV)
                                   @@ ("REPORT_DATE" :> EpochV(1720000000))))
       = Wide(1720000, 0)
  /\ DerivedKey(Feature(Toronto, ("OCC_YEAR" :> IntV(2026))
                                   @@ ("OCC_MONTH" :> StrV("March"))
                                   @@ ("OCC_DAY" :> IntV(15))
                                   @@ ("OCC_HOUR" :> IntV(1))))
       = Wide(202603, 150100)
  /\ DerivedKey(Feature(Toronto, Recent)) = Wide(202610, 0)
  /\ DerivedKey(Feature(NoGeometry, NoAttrs)) = Wide(0, 0)

\* C14 witness: a list of a March 2026 composite, an October 2026 composite
\* and a December 2025 composite came back as October, March, December.
C14_Witness ==
  /\ spc = "returned"
  /\ Len(accumulated) = 3
  /\ DerivedKey(accumulated[1]) = Wide(202603, 150100)
  /\ DerivedKey(accumulated[2]) = Wide(202610, 0)
  /\ DerivedKey(accumulated[3]) = Wide(202512, 150000)
  /\ returned = <<accumulated[2], accumulated[1], accumulated[3]>>

\* ========================================================================
\* Order of the emitted records (checked under SpecTransform)
\* ========================================================================
\* The consumed features that were accepted, by position, in input order.
RECURSIVE KeptUpTo(_)
KeptUpTo(k) ==
  IF k = 0 THEN <<>>
  ELSE IF verdicts[k] = "clean" THEN Append(KeptUpTo(k - 1), k)
  ELSE KeptUpTo(k - 1)

\* C15: the emitted records are, one per accepted feature, in the relative
\* order of their source features; for the same input and clock the output
\* is the same sequence, and a newest-first input gives a newest-first
\* output.
C15_OrderPreserved ==
  LET kept == KeptUpTo(idx)
  IN  /\ Len(clean_records) = Len(kept)
      /\ \A i \in 1..Len(kept) :
           clean_records[i] =
             process_feature(raw_features[kept[i]], theft_type, i - 1,
                             today).record
      /\ \A i, j \in 1..Len(kept) : i < j => kept[i] < kept[j]
      /\ tpc = "returned" =>
           clean_records
             = process_features(raw_features, theft_type, today).clean
      /\ (\A k \in 1..(Len(raw_features) - 1) :
            /\ DerivedKey(raw_features[k]).ok
            /\ DerivedKey(raw_features[k + 1]).ok
            /\ ~Less(DerivedKey(raw_features[k]),
                     DerivedKey(raw_features[k + 1])))
           => \A i \in 1..(Len(kept) - 1) :
                ~Less(DerivedKey(raw_features[kept[i]]),
                      DerivedKey(raw_features[kept[i + 1]]))

\* C15 witness: of two accepted features the first carries day 15 and the
\* second no day; the records came out as day 15, then day 1.
C15_Witness ==
  /\ tpc = "returned"
  /\ Len(raw_features) = 2
  /\ "OCC_DAY" \in DOMAIN raw_features[1].attributes
  /\ "OCC_DAY" \notin DOMAIN raw_features[2].attributes
  /\ verdicts = <<"clean", "clean">>
  /\ Len(clean_records) = 2
  /\ clean_records[1].day = 15
  /\ clean_records[2].day = 1

\* ========================================================================
\* Properties of discover_fields and build_where_clauses (under SpecFetch)
\* ========================================================================
\* The field a WHERE clause references ("" for the unconditional filter).
ClauseField(clause) ==
  CASE clause = "OCC_YEAR >= cutoff_year" -> "OCC_YEAR"
    [] clause = "OCC_DATE >= cutoff_ms" -> "OCC_DATE"
    [] clause = "REPORT_DATE >= cutoff_ms" -> "REPORT_DATE"
    [] OTHER -> ""

\* The place of a clause in the fixed precedence.
ClauseRank(clause) ==
  CASE clause = "OCC_YEAR >= cutoff_year" -> 1
    [] clause = "OCC_DATE >= cutoff_ms" -> 2
    [] clause = "REPORT_DATE >= cutoff_ms" -> 3
    [] OTHER -> 4

\* The strategies s are those of the available fields, in precedence order,
\* the unconditional filter last.
InPrecedence(s, fields) ==
  /\ Len(s) >= 1
  /\ s[Len(s)] = "1=1"
  /\ \A i, j \in 1..Len(s) : i < j => ClauseRank(s[i]) < ClauseRank(s[j])
  /\ \A i \in 1..(Len(s) - 1) : ClauseField(s[i]) \in fields
  /\ \A f \in {"OCC_YEAR", "OCC_DATE", "REPORT_DATE"} :
       f \in fields <=> \E i \in 1..Len(s) : ClauseField(s[i]) = f

\* C16: for every set of available fields build_where_clauses returns the
\* year threshold (only if OCC_YEAR exists), the OCC_DATE threshold (only if
\* OCC_DATE exists), the REPORT_DATE threshold (only if REPORT_DATE exists)
\* and then 1=1, in that order; 1=1 is always present and last; no strategy
\* references a field that is not available.
C16_StrategyPrecedence ==
  /\ pc = "start" =>
       \A fields \in SUBSET {"OBJECTID", "OCC_YEAR", "OCC_DATE",
                             "REPORT_DATE"} :
         InPrecedence(build_where_clauses(fields), fields)
  /\ pc \notin {"start", "discover"} =>
       InPrecedence(where_strategies, available_fields)
  /\ (pc \notin {"start", "discover"}
        /\ available_fields = {"OBJECTID", "OCC_DATE"})
       => where_strategies = <<"OCC_DATE >= cutoff_ms", "1=1">>

\* C16 witness: a layer that exposes OBJECTID and OCC_DATE got the OCC_DATE
\* threshold and the unconditional filter, and the second is being tried.
C16_Witness ==
  /\ pc = "page"
  /\ available_fields = {"OBJECTID", "OCC_DATE"}
  /\ where_strategies = <<"OCC_DATE >= cutoff_ms", "1=1">>
  /\ strategy = 2

\* The discovery query ended in a failure: a transport error or a
\* service-reported error on the last attempt, or a malformed body.
DiscoveryFailed ==
  /\ pc = "discover"
  /\ hpc \in {"raised", "returned_none"}

\* C17: discover_fields never propagates a failure: after a network failure
\* past the retries, a malformed response or a service-reported error,
\* fetch_features goes on with the guess OCC_YEAR, OCC_DATE, REPORT_DATE, so
\* that all four strategies are built, and they are tried in order.
C17_DiscoveryNeverFails ==
  /\ [][DiscoveryFailed =>
          /\ pc' = "strategy"
          /\ strategy' = 1
          /\ result' = -1
          /\ available_fields' = {"OCC_YEAR", "OCC_DATE", "REPORT_DATE"}
          /\ where_strategies' =
               <<"OCC_YEAR >= cutoff_year", "OCC_DATE >= cutoff_ms",
                 "REPORT_DATE >= cutoff_ms", "1=1">>]_vars
  /\ []((pc = "discover" /\ hpc \notin {"idle", "try", "sleep", "returned"})
          => DiscoveryFailed)
  /\ []((pc = "discover" /\ last_resp.kind \in {"neterr", "malformed"}
           /\ hpc \notin {"try", "sleep"}) => DiscoveryFailed)
  /\ []((pc = "discover" /\ last_resp.kind = "json" /\ last_resp.error
           /\ hpc \notin {"try", "sleep"}) => DiscoveryFailed)
  /\ []((pc \in {"strategy", "page"}
           /\ available_fields = {"OCC_YEAR", "OCC_DATE", "REPORT_DATE"})
          => /\ Len(where_strategies) = 4
             /\ Len(outcomes) = strategy - 1
             /\ strategy <= 4)

\* C17 witness: discovery got a malformed body, and the fourth of the
\* guessed strategies is being requested after the first three failed.
C17_Witness ==
  /\ pc = "page"
  /\ available_fields = {"OCC_YEAR", "OCC_DATE", "REPORT_DATE"}
  /\ strategy = 4
  /\ where_strategies[4] = "1=1"
  /\ Len(outcomes) = 3

\* ========================================================================
\* Properties of _first_of (checked under SpecTransform)
\* ========================================================================
\* The candidate lists of FIELD_MAP.
CandidateLists == {FIELD_MAP[key] : key \in DOMAIN FIELD_MAP}

\* The places in names of the keys attrs holds with a value that is not None.
PresentAt(attrs, names) ==
  {i \in 1..Len(names) :
     names[i] \in DOMAIN attrs /\ attrs[names[i]] # NoneV}

Smallest(S) == CHOOSE i \in S : \A j \in S : i <= j

\* C18: _first_of returns the value of the first key, in the declared order
\* of the candidates, that the attributes hold with a non-null value, and
\* the caller's default when there is none; attributes without
\* NEIGHBOURHOOD_158 and NEIGHBOURHOOD_140 but with HOOD_158 = "Annex"
\* resolve to "Annex".
C18_FirstOfResolves ==
  /\ \A k \in Consumed :
       \A names \in CandidateLists :
         \A default \in {NoneV, StrV("Unknown")} :
           LET attrs == raw_features[k].attributes
               present == PresentAt(attrs, names)
           IN  _first_of(attrs, names, default) =
                 IF present = {} THEN default
                 ELSE attrs[names[Smallest(present)]]
  /\ \A i \in 1..Len(clean_records) :
       LET attrs == raw_features[KeptUpTo(idx)[i]].attributes
           present == PresentAt(attrs, FIELD_MAP.neighbourhood_fields)
       IN  clean_records[i].neighbourhood =
             IF present = {} THEN "Unknown"
             ELSE Strip(PyStr(attrs[FIELD_MAP.neighbourhood_fields[
                                      Smallest(present)]]))
  /\ \A i \in 1..Len(clean_records) :
       LET attrs == raw_features[KeptUpTo(idx)[i]].attributes
       IN  ("HOOD_158" \in DOMAIN attrs
              /\ "NEIGHBOURHOOD_158" \notin DOMAIN attrs
              /\ "NEIGHBOURHOOD_140" \notin DOMAIN attrs)
             => clean_records[i].neighbourhood = Strip(PyStr(attrs["HOOD_158"]))

\* C18 witness: a feature with HOOD_158 = "Annex" and neither of the two
\* NEIGHBOURHOOD_ fields was emitted with neighbourhood "Annex".
C18_Witness ==
  /\ tpc = "returned"
  /\ Len(raw_features) = 1
  /\ "NEIGHBOURHOOD_158" \notin DOMAIN raw_features[1].attributes
  /\ "NEIGHBOURHOOD_140" \notin DOMAIN raw_features[1].attributes
  /\ "HOOD_158" \in DOMAIN raw_features[1].attributes
  /\ raw_features[1].attributes["HOOD_158"] = StrV("Annex")
  /\ Len(clean_records) = 1
  /\ clean_records[1].neighbourhood = "Annex"

\* ========================================================================
\* Properties of the paging cursor and the ceiling (checked under SpecFetch)
\* ========================================================================
\* C19: the safety limit holds for every server behaviour: fetch_features
\* never accumulates more than 100,000 records under one strategy, whatever
\* page sizes and exceededTransferLimit flags the service returns.
C19_SafetyLimit == all_features <= SAFETY_LIMIT

\* C20: within one strategy the resultOffset sent with every page request
\* equals the number of features accumulated so far under that strategy,
\* also after a page shorter than PAGE_SIZE that signals
\* exceededTransferLimit = true.
C20_OffsetIsAccumulated ==
  (pc = "page" /\ hpc \in {"try", "sleep"}) => offset = all_features

\* ========================================================================
\* Termination of fetch_features (checked under SpecFetchFair)
\* ========================================================================
\* C21: fetch_features terminates for every server behaviour in which each
\* single HTTP attempt returns or fails: it reaches its return, and the
\* number of HTTP attempts is bounded, since a request is attempted at most
\* MAX_RETRIES times, every continued page added at least one feature toward
\* the 100,000 ceiling, and there are at most four strategies after the one
\* discovery call.
C21_Terminates ==
  /\ <>(pc = "done")
  /\ [](Cardinality(Attempts) <= MAX_RETRIES)
  /\ [](pc = "page" =>
          /\ all_features >= page_calls - 1
          /\ all_features < SAFETY_LIMIT
          /\ page_calls <= SAFETY_LIMIT)
  /\ [](Len(where_strategies) <= 4 /\ strategy <= Len(where_strategies) + 1)
  /\ [][pc = "done" => pc' = "done"]_vars
  /\ [][pc = "discover" => pc' \in {"discover", "strategy"}]_vars
  /\ [][pc # "start" => pc' # "discover" \/ pc = "discover"]_vars

\* C21 witness: a service that signals exceededTransferLimit on every page
\* was paged up to the ceiling, and fetch_features returned.
C21_Witness ==
  /\ pc = "done"
  /\ data.flag
  /\ result >= SAFETY_LIMIT

====
